---- MODULE Spec2Model ----
(***************************************************************************)
(* Model of mining/service.py: MiningService, the Stratum RPC surface of   *)
(* the pool (update_block, add_litecoind, authorize, subscribe, submit).   *)
(*                                                                         *)
(* Twisted runs every RPC handler to completion on the single reactor      *)
(* thread, so each handler is one atomic action.  The collaborators that   *)
(* are reached through Interfaces.* (worker_manager, template_registry,    *)
(* share_limiter, share_manager, timestamper) are not part of service.py;  *)
(* they are modelled from their contracts and their answers are inputs of  *)
(* the handler actions.                                                    *)
(***************************************************************************)
EXTENDS Integers, Sequences, FiniteSets, TLC

(***************************************************************************)
(* Bounds of the model.                                                    *)
(***************************************************************************)
MaxCalls == 4        \* RPC calls handled in one behaviour

(***************************************************************************)
(* Program constants.                                                      *)
(***************************************************************************)
POOL_TARGET == 1          \* settings.POOL_TARGET, "default diff is 1"
extranonce2_size == 4     \* Interfaces.template_registry.extranonce2_size
AddLitecoindArity == 4    \* len(args) != 4

Conns == {"c1", "c2"}
Workers == {"alice", "bob"}
Passwords == {"pw1", "pw2"}
Jobs == {"job1", "stale"}
Difficulties == {1, 2}    \* the difficulties a session is set to
Nonces == {0, 1, 2}       \* submissions, named by the difficulty their hash achieves
BlockNonces == {2}        \* the submissions whose hash meets the job's target

Readings == {"equality", "assignment"}

None == "None"            \* Python None where a string is expected
NoBytes == <<>>           \* session.get('extranonce1', None): falsy
PyFalse == 0              \* Python False where a number is expected (False == 0)
FalseField == <<"False">> \* Python False where a header or hash is expected

(***************************************************************************)
(* Python dict helpers (a session is a dict, session['authorized'] too).   *)
(***************************************************************************)
HasKey(d, k) == k \in DOMAIN d
Get(d, k, default) == IF k \in DOMAIN d THEN d[k] ELSE default
Put(d, k, v) == [x \in (DOMAIN d) \cup {k} |-> IF x = k THEN v ELSE d[x]]
Del(d, k) == [x \in (DOMAIN d) \ {k} |-> d[x]]
EmptyDict == [x \in {} |-> None]
SetDefault(d, k, v) == IF k \in DOMAIN d THEN d ELSE Put(d, k, v)

VARIABLES
    open,         \* connections that are open
    session,      \* connection -> its session dict
    allocated,    \* extranonce1 values issued by get_new_extranonce1
    subscribers,  \* connections registered with Pubsub
    shares,       \* calls of share_manager.on_submit_share, in order
    blocks,       \* calls of share_manager.on_submit_block, in order
    deferreds,    \* the on_submit handles returned by submit_share
    daemons,      \* calls of bitcoin_rpc.add_connection, in order
    templates,    \* number of template_registry.update_block calls
    ncalls,       \* RPC calls handled so far
    last          \* the call handled last: its arguments, collaborator calls, outcome

vars == <<open, session, allocated, subscribers, shares,
          blocks, deferreds, daemons, templates, ncalls, last>>


(***************************************************************************)
(* Collaborators reached through Interfaces.*: not in service.py.          *)
(***************************************************************************)

\* Interfaces.worker_manager.authorize(worker_name, worker_password).  The
\* credential store is not part of the service and may change between any
\* two calls, so `known` is its answer at the time of this call: whether it
\* holds the pair now.  An absent password (None) is no credential.
Authenticate(worker_name, worker_password, known) ==
    /\ worker_password # None
    /\ known

\* binascii.hexlify: two lower-case hexadecimal digits per byte.
HexDigits == <<"0", "1", "2", "3", "4", "5", "6", "7",
               "8", "9", "a", "b", "c", "d", "e", "f">>
RECURSIVE hexlify(_)
hexlify(bytes) ==
    IF bytes = <<>> THEN <<>>
    ELSE <<HexDigits[(Head(bytes) \div 16) + 1], HexDigits[(Head(bytes) % 16) + 1]>>
         \o hexlify(Tail(bytes))

\* Interfaces.timestamper.time(): the clock moves with every call handled.
TimestamperTime == 100 + ncalls

\* self.connection_ref()._get_ip()
IpOf(c) == IF c = "c1" THEN "10.0.0.1" ELSE "10.0.0.2"

\* Pubsub.subscribe(connection, MiningSubscription()): a 1-tuple holding
\* (event, subscription key).
PubsubSubscribe(c) == << <<"mining.notify", c>> >>

NoArgs == [x \in {} |-> None]

NoCall == [op |-> "none", conn |-> None, args |-> NoArgs, ret |-> "none",
           error |-> "", value |-> <<>>, calls |-> <<>>]

Init ==
    /\ open = Conns
    /\ session = [c \in Conns |-> EmptyDict]
    /\ allocated = {}
    /\ subscribers = {}
    /\ shares = <<>>
    /\ blocks = <<>>
    /\ deferreds = <<>>
    /\ daemons = <<>>
    /\ templates = 0
    /\ ncalls = 0
    /\ last = NoCall

\* A slip in lines 49, 68, 77: one session for all connections.
GetSessionShared(c) == "c1"

\* self.connection_ref().get_session() (lines 49, 68, 77): the session of
\* the connection the call came in on.
GetSession(c) == c

(***************************************************************************)
(* authorize, lines 46-58.                                                 *)
(***************************************************************************)
\* A slip in lines 55-58: the entry is left in place on failure.
AuthorizedAfterStale(authorized, worker_name, worker_password, known) ==
    IF Authenticate(worker_name, worker_password, known)
    THEN Put(authorized, worker_name, worker_password)
    ELSE authorized

\* The session's 'authorized' map after authorize(worker_name, worker_password).
AuthorizedAfter(authorized, worker_name, worker_password, known) ==
    IF Authenticate(worker_name, worker_password, known)
    THEN Put(authorized, worker_name, worker_password)
    ELSE IF HasKey(authorized, worker_name)
         THEN Del(authorized, worker_name)
         ELSE authorized

authorize(c, worker_name, worker_password, known) ==
    /\ c \in open
    /\ ncalls < MaxCalls
    /\ LET s0 == SetDefault(session[GetSession(c)], "authorized", EmptyDict)
           ok == Authenticate(worker_name, worker_password, known)
           s1 == Put(s0, "authorized",
                     AuthorizedAfter(s0["authorized"], worker_name, worker_password,
                                     known))
       IN /\ session' = [session EXCEPT ![GetSession(c)] = s1]
          /\ last' = [op |-> "authorize", conn |-> c,
                      args |-> [worker_name |-> worker_name,
                                worker_password |-> worker_password,
                                known |-> known],
                      ret |-> IF ok THEN "True" ELSE "False",
                      error |-> "", value |-> <<>>,
                      calls |-> <<"worker_manager.authorize">>]
    /\ ncalls' = ncalls + 1
    /\ UNCHANGED <<open, allocated, subscribers, shares,
                   blocks, deferreds, daemons, templates>>

(***************************************************************************)
(* subscribe, lines 60-72.                                                 *)
(***************************************************************************)
\* Interfaces.template_registry.get_new_extranonce1(): a byte string that
\* was not issued before (a counter; the service never gives a value back).
GetNewExtranonce1 == << Cardinality(allocated) + 1 >>

\* A slip in line 69: every session is given the same value.
StoredExtranonce1Fixed(c, extranonce1) == <<1>>

\* The value subscribe stores in session['extranonce1'] (line 69).
StoredExtranonce1(c, extranonce1) == extranonce1

\* A slip in line 70: a difficulty the session already has is kept.
DifficultyAtSubscribeKept(s) == Get(s, "difficulty", POOL_TARGET)

\* The value subscribe stores in session['difficulty'] (line 70).
DifficultyAtSubscribe(s) == POOL_TARGET

subscribe(c) ==
    /\ c \in open
    /\ ncalls < MaxCalls
    /\ LET extranonce1 == GetNewExtranonce1
             extranonce1_hex == hexlify(extranonce1)
             s1 == Put(session[GetSession(c)], "extranonce1",
                       StoredExtranonce1(c, extranonce1))
             s2 == Put(s1, "difficulty", DifficultyAtSubscribe(s1))
         IN /\ allocated' = allocated \cup {extranonce1}
            /\ session' = [session EXCEPT ![GetSession(c)] = s2]
            /\ subscribers' = subscribers \cup {c}
            /\ last' = [op |-> "subscribe", conn |-> c, args |-> NoArgs,
                        ret |-> "tuple", error |-> "",
                        value |-> PubsubSubscribe(c) \o <<extranonce1_hex, extranonce2_size>>,
                        calls |-> <<"template_registry.get_new_extranonce1",
                                    "Pubsub.subscribe">>]
    /\ ncalls' = ncalls + 1
    /\ UNCHANGED <<open, shares, blocks, deferreds,
                   daemons, templates>>

(***************************************************************************)
(* update_block and add_litecoind, lines 25-44.                            *)
(***************************************************************************)
\* The @admin decorator (stratum.services.admin): the call goes through
\* only with the administrator password.
AdminGate(is_admin) == is_admin

\* A slip in line 35: add_litecoind is left without the decorator.
AdminOpsUpdateOnly == {"update_block"}

\* The operations that carry the decorator (lines 25 and 35).
AdminOps == {"update_block", "add_litecoind"}

\* Whether a call of `op` is stopped before the body of the operation runs.
Refused(op, is_admin) == op \in AdminOps /\ ~AdminGate(is_admin)

ArgLists == { <<"host", "port", "user">>,
              <<"host", "port", "user", "pass">>,
              <<"pass", "user", "port", "host">>,
              <<"host", "port", "user", "pass", "extra">> }

update_block(is_admin) ==
    /\ ncalls < MaxCalls
    /\ IF ~Refused("update_block", is_admin)
       THEN /\ templates' = templates + 1
            /\ last' = [op |-> "update_block", conn |-> None,
                        args |-> [is_admin |-> is_admin],
                        ret |-> "True", error |-> "", value |-> <<>>,
                        calls |-> <<"template_registry.update_block">>]
       ELSE /\ templates' = templates
            /\ last' = [op |-> "update_block", conn |-> None,
                        args |-> [is_admin |-> is_admin],
                        ret |-> "raise", error |-> "Unauthorized admin",
                        value |-> <<>>, calls |-> <<>>]
    /\ ncalls' = ncalls + 1
    /\ UNCHANGED <<open, session, allocated, subscribers,
                   shares, blocks, deferreds, daemons>>

\* A slip in line 38: "len(args) < 4".
ArityAtLeast(args) == Len(args) >= AddLitecoindArity

\* len(args) != 4 (line 38)
ArityOk(args) == Len(args) = AddLitecoindArity

\* add_connection(args[0], args[1], args[2], args[3]) (line 42)
AddConnectionArgs(args) == <<args[1], args[2], args[3], args[4]>>

add_litecoind(is_admin, args) ==
    /\ ncalls < MaxCalls
    /\ IF Refused("add_litecoind", is_admin)
       THEN /\ daemons' = daemons
            /\ last' = [op |-> "add_litecoind", conn |-> None,
                        args |-> [is_admin |-> is_admin, args |-> args],
                        ret |-> "raise", error |-> "Unauthorized admin",
                        value |-> <<>>, calls |-> <<>>]
       ELSE IF ~ArityOk(args)
       THEN /\ daemons' = daemons
            /\ last' = [op |-> "add_litecoind", conn |-> None,
                        args |-> [is_admin |-> is_admin, args |-> args],
                        ret |-> "raise",
                        error |-> "Incorrect number of parameters sent",
                        value |-> <<>>, calls |-> <<>>]
       ELSE /\ daemons' = Append(daemons, AddConnectionArgs(args))
            /\ last' = [op |-> "add_litecoind", conn |-> None,
                        args |-> [is_admin |-> is_admin, args |-> args],
                        ret |-> "True", error |-> "", value |-> <<>>,
                        calls |-> <<"bitcoin_rpc.add_connection">>]
    /\ ncalls' = ncalls + 1
    /\ UNCHANGED <<open, session, allocated, subscribers,
                   shares, blocks, deferreds, templates>>


(***************************************************************************)
(* submit, lines 74-124.                                                   *)
(***************************************************************************)
\* A slip in line 81: a default credential where the map has no entry.
StoredCredentialDefaulted(authorized, worker_name) ==
    Get(authorized, worker_name, "pw1")

\* The credential submit hands to worker_manager.authorize (line 81):
\* session['authorized'].get(worker_name).
StoredCredential(authorized, worker_name) == Get(authorized, worker_name, None)

\* Line 85.
Extranonce1Bin(s) == Get(s, "extranonce1", NoBytes)

\* The test of line 87: "not extranonce1_bin".
NotSubscribed(extranonce1_bin) == extranonce1_bin = NoBytes

\* A slip in lines 90-94: the difficulty is read after the limiter ran.
SnapshotDifficultyLate(s0, s1) == s1["difficulty"]

\* Line 90: the difficulty of the submit is read from the session before
\* the limiter runs (s0), not after it (s1).
SnapshotDifficulty(s0, s1) == s0["difficulty"]

\* Interfaces.share_limiter.submit(connection_ref, job_id, difficulty,
\* submit_time, worker_name): may retarget the session (new_diff # 0); the
\* difficulty it replaces is kept as the session's previous difficulty.
ShareLimiterSubmit(s, new_diff) ==
    IF new_diff = 0 \/ new_diff = s["difficulty"]
    THEN s
    ELSE Put(Put(s, "prev_diff", s["difficulty"]), "difficulty", new_diff)

\* The achieved difficulty of the hash of a submission, and whether that
\* hash meets the job's (network) target.
ShareDiff(nonce) == nonce
MeetsJobTarget(nonce) == nonce \in BlockNonces

\* Interfaces.template_registry.submit_share(job_id, worker_name, session,
\* extranonce1_bin, extranonce2, ntime, nonce, difficulty): raises
\* SubmitException, or returns (block_header, block_hash, share_diff,
\* on_submit, shareAtOldDiff).  A share below `difficulty` that meets the
\* session's previous difficulty is returned with that previous difficulty.
SubmitShare(job_id, worker_name, s, extranonce1_bin, nonce, difficulty) ==
    LET share_diff == ShareDiff(nonce)
        prev == Get(s, "prev_diff", PyFalse)
        solved == MeetsJobTarget(nonce)
        found == [raised |-> FALSE, msg |-> "",
                  block_header |-> <<"header", job_id, extranonce1_bin, nonce>>,
                  block_hash |-> <<"hash", job_id, extranonce1_bin, nonce>>,
                  share_diff |-> share_diff,
                  on_submit |-> solved,
                  shareAtOldDiff |-> PyFalse]
        failed(msg) == [raised |-> TRUE, msg |-> msg,
                        block_header |-> FalseField, block_hash |-> FalseField,
                        share_diff |-> 0, on_submit |-> FALSE,
                        shareAtOldDiff |-> PyFalse]
    IN IF job_id = "stale" THEN failed("Job not found")
       ELSE IF share_diff >= difficulty THEN found
       ELSE IF prev # PyFalse /\ prev < difficulty /\ share_diff >= prev
            THEN [found EXCEPT !.shareAtOldDiff = prev]
       ELSE failed("Share is above target")

\* Line 109, "if shareAtOldDiff = false:".  The statement is written as an
\* assignment where the comment above it describes a test for false; Python
\* accepts neither the "=" nor the name "false".  Both readings are kept:
\*   equality:   the test of lines 107-108, shareAtOldDiff == False;
\*   assignment: shareAtOldDiff becomes false and the condition is its
\*               (false) value, so the else branch runs.
\* The result is the branch taken and shareAtOldDiff after the statement.
Line109(reading, shareAtOldDiff) ==
    IF reading = "equality"
    THEN [then |-> shareAtOldDiff = PyFalse, shareAtOldDiff |-> shareAtOldDiff]
    ELSE [then |-> FALSE, shareAtOldDiff |-> PyFalse]

\* The difficulty handed to on_submit_share for an accepted share
\* (lines 109-116).
CreditedDifficulty(reading, difficulty, shareAtOldDiff) ==
    LET l == Line109(reading, shareAtOldDiff)
    IN IF l.then THEN difficulty ELSE l.shareAtOldDiff

\* One call of share_manager.on_submit_share.
ShareRecord(worker_name, block_header, block_hash, difficulty, submit_time, is_valid, ip, invalid_reason, share_diff) ==
    [worker_name |-> worker_name, block_header |-> block_header,
     block_hash |-> block_hash, difficulty |-> difficulty,
     submit_time |-> submit_time, is_valid |-> is_valid, ip |-> ip,
     invalid_reason |-> invalid_reason, share_diff |-> share_diff]

\* A slip in lines 103-104: the share difficulty slot is given the
\* difficulty, not 0.
InvalidShareRecordSwapped(worker_name, difficulty, submit_time, ip, msg) ==
    ShareRecord(worker_name, FalseField, FalseField, difficulty, submit_time,
                FALSE, ip, msg, difficulty)

\* A slip in line 104: True where the record says whether the share is valid.
InvalidShareRecordAccepted(worker_name, difficulty, submit_time, ip, msg) ==
    ShareRecord(worker_name, FalseField, FalseField, difficulty, submit_time,
                TRUE, ip, msg, 0)

\* Lines 103-104: the record of a share the validator refused.
InvalidShareRecord(worker_name, difficulty, submit_time, ip, msg) ==
    ShareRecord(worker_name, FalseField, FalseField, difficulty, submit_time,
                FALSE, ip, msg, 0)

\* A slip in lines 110-116: False where the record says whether the share
\* is valid.
ValidShareRecordRejected(reading, worker_name, v, difficulty, submit_time, ip) ==
    ShareRecord(worker_name, v.block_header, v.block_hash,
                CreditedDifficulty(reading, difficulty, v.shareAtOldDiff),
                submit_time, FALSE, ip, "", v.share_diff)

\* Lines 110-111 and 115-116: the record of an accepted share.
ValidShareRecord(reading, worker_name, v, difficulty, submit_time, ip) ==
    ShareRecord(worker_name, v.block_header, v.block_hash,
                CreditedDifficulty(reading, difficulty, v.shareAtOldDiff),
                submit_time, TRUE, ip, "", v.share_diff)

\* Lines 121-122: the arguments bound to share_manager.on_submit_block.
CallbackArgs(worker_name, block_header, block_hash, submit_time, ip, share_diff) ==
    [worker_name |-> worker_name, block_header |-> block_header,
     block_hash |-> block_hash, submit_time |-> submit_time, ip |-> ip,
     share_diff |-> share_diff]

\* A slip in lines 121-122: block_header and block_hash
\* change places.
RegisteredCallbacksSwapped(worker_name, v, submit_time, ip) ==
    << CallbackArgs(worker_name, v.block_hash, v.block_header, submit_time, ip,
                    v.share_diff) >>

\* A slip in lines 121-122: the time is read again for the callback.
RegisteredCallbacksLater(worker_name, v, submit_time, ip) ==
    << CallbackArgs(worker_name, v.block_header, v.block_hash, submit_time + 1, ip,
                    v.share_diff) >>

\* Lines 118-122: the handle submit_share returned, with the callbacks
\* submit adds to it.
RegisteredCallbacks(worker_name, v, submit_time, ip) ==
    << CallbackArgs(worker_name, v.block_header, v.block_hash, submit_time, ip,
                    v.share_diff) >>

\* A slip in line 124: "return on_submit", which makes the RPC layer wait
\* for the handle before it replies.
SubmitReplyDeferred(c, args, ret, error, calls) ==
    [op |-> "submit", conn |-> c, args |-> args,
     ret |-> IF ret = "True" /\ calls[Len(calls)] = "on_submit.addCallback"
             THEN "deferred" ELSE ret,
     error |-> error, value |-> <<>>, calls |-> calls]

SubmitReply(c, args, ret, error, calls) ==
    [op |-> "submit", conn |-> c, args |-> args, ret |-> ret, error |-> error,
     value |-> <<>>, calls |-> calls]

\* A slip in line 81: the entry is looked up, the credential is not
\* verified again.
SubmitAuthorizedByEntry(s, worker_name, known) == HasKey(s["authorized"], worker_name)

\* Whether the check of line 81 lets the submit through.
SubmitAuthorized(s, worker_name, known) ==
    Authenticate(worker_name, StoredCredential(s["authorized"], worker_name), known)

NotAuthorizedMsg == "Worker is not authorized"
NotSubscribedMsg == "Connection is not subscribed for mining"

\* A slip in line 88: the message of line 82 pasted.
SubmitChecksPasted(s, worker_name, known) ==
    IF ~SubmitAuthorized(s, worker_name, known) THEN NotAuthorizedMsg
    ELSE IF NotSubscribed(Extranonce1Bin(s)) THEN NotAuthorizedMsg
    ELSE ""

\* A slip in lines 80-88: the subscription is tested before the worker.
SubmitChecksSubscriptionFirst(s, worker_name, known) ==
    IF NotSubscribed(Extranonce1Bin(s)) THEN NotSubscribedMsg
    ELSE IF ~SubmitAuthorized(s, worker_name, known) THEN NotAuthorizedMsg
    ELSE ""

\* The checks of lines 80-88, in their order: the message of the
\* SubmitException raised, "" when the submit goes on.
SubmitChecks(s, worker_name, known) ==
    IF ~SubmitAuthorized(s, worker_name, known) THEN NotAuthorizedMsg
    ELSE IF NotSubscribed(Extranonce1Bin(s)) THEN NotSubscribedMsg
    ELSE ""

\* Whether a submit gets past the checks of lines 81 and 87.
ReachesValidator(s, worker_name, known) ==
    SubmitChecks(SetDefault(s, "authorized", EmptyDict), worker_name, known) = ""

submit(c, worker_name, job_id, nonce, new_diff, reading, known) ==
    /\ c \in open
    /\ ncalls < MaxCalls
    /\ ncalls' = ncalls + 1
    /\ UNCHANGED <<open, allocated, subscribers, blocks,
                   daemons, templates>>
    /\ LET args == [worker_name |-> worker_name, job_id |-> job_id,
                    nonce |-> nonce, new_diff |-> new_diff, reading |-> reading,
                    known |-> known]
           s0 == SetDefault(session[GetSession(c)], "authorized", EmptyDict)
           extranonce1_bin == Extranonce1Bin(s0)
           refused == SubmitChecks(s0, worker_name, known)
       IN IF refused # ""
          THEN /\ session' = [session EXCEPT ![GetSession(c)] = s0]
               /\ last' = SubmitReply(c, args, "raise", refused,
                                      <<"worker_manager.authorize">>)
               /\ UNCHANGED <<shares, deferreds>>
          ELSE LET s1 == ShareLimiterSubmit(s0, new_diff)
                   difficulty == SnapshotDifficulty(s0, s1)
                   submit_time == TimestamperTime
                   ip == IpOf(c)
                   v == SubmitShare(job_id, worker_name, s1, extranonce1_bin,
                                    nonce, difficulty)
                   pre == <<"worker_manager.authorize", "timestamper.time",
                            "share_limiter.submit", "template_registry.submit_share",
                            "share_manager.on_submit_share">>
               IN /\ session' = [session EXCEPT ![GetSession(c)] = s1]
                  /\ IF v.raised
                     THEN /\ shares' = Append(shares,
                                 InvalidShareRecord(worker_name, difficulty,
                                                    submit_time, ip, v.msg))
                          /\ last' = SubmitReply(c, args, "raise", v.msg, pre)
                          /\ UNCHANGED deferreds
                     ELSE /\ shares' = Append(shares,
                                 ValidShareRecord(reading, worker_name, v, difficulty,
                                                  submit_time, ip))
                          /\ IF v.on_submit
                             THEN /\ deferreds' = Append(deferreds,
                                        [called |-> FALSE,
                                         callbacks |-> RegisteredCallbacks(
                                             worker_name, v, submit_time, ip)])
                                  /\ last' = SubmitReply(c, args, "True", "",
                                                 Append(pre, "on_submit.addCallback"))
                             ELSE /\ UNCHANGED deferreds
                                  /\ last' = SubmitReply(c, args, "True", "", pre)

(***************************************************************************)
(* The environment of the service.                                         *)
(***************************************************************************)
\* The connection closes; its session is destroyed with it.
Disconnect(c) ==
    /\ c \in open
    /\ open' = open \ {c}
    /\ session' = [session EXCEPT ![c] = EmptyDict]
    /\ subscribers' = subscribers \ {c}
    /\ UNCHANGED <<allocated, shares, blocks, deferreds,
                   daemons, templates, ncalls, last>>

\* One call of share_manager.on_submit_block(result, *callback args).
BlockRecord(result, cb) ==
    [result |-> result, worker_name |-> cb.worker_name,
     block_header |-> cb.block_header, block_hash |-> cb.block_hash,
     submit_time |-> cb.submit_time, ip |-> cb.ip, share_diff |-> cb.share_diff]

\* The reports a handle's callbacks make when it fires with `result`.
FireCallbacks(callbacks, result) ==
    [i \in 1..Len(callbacks) |-> BlockRecord(result, callbacks[i])]

\* litecoind answers the submitblock call: the handle fires, once, and runs
\* its callbacks.
Resolve(d, result) ==
    /\ d \in 1..Len(deferreds)
    /\ ~deferreds[d].called
    /\ deferreds' = [deferreds EXCEPT ![d].called = TRUE]
    /\ blocks' = blocks \o FireCallbacks(deferreds[d].callbacks, result)
    /\ UNCHANGED <<open, session, allocated, subscribers,
                   shares, daemons, templates, ncalls, last>>

\* The inputs of a submit next to its worker: the job, the nonce, what the
\* limiter does and the reading of line 109.  They play no part in a submit
\* that the checks of lines 80-88 refuse, which is given one of each.
ShareInputs(c, worker_name, known) ==
    IF c \in open /\ ReachesValidator(session[GetSession(c)], worker_name, known)
    THEN Jobs \X Nonces \X ({0} \cup Difficulties) \X Readings
    ELSE {<<"job1", 0, 0, "equality">>}

\* The calls and events that act on sessions without validating a share.
Sessions ==
    \/ \E c \in Conns, w \in Workers, p \in Passwords, k \in BOOLEAN :
          authorize(c, w, p, k)
    \/ \E c \in Conns : subscribe(c)
    \/ \E c \in Conns : Disconnect(c)

Shares ==
    \/ \E c \in Conns, w \in Workers, k \in BOOLEAN :
          \E i \in ShareInputs(c, w, k) : submit(c, w, i[1], i[2], i[3], i[4], k)
    \/ \E d \in 1..MaxCalls, r \in BOOLEAN : Resolve(d, r)

Admin ==
    \/ \E a \in BOOLEAN : update_block(a)
    \/ \E a \in BOOLEAN, args \in ArgLists : add_litecoind(a, args)

\* The workers' side of the service: authorize, subscribe, submit.
Next == Sessions \/ Shares
Spec == Init /\ [][Next]_vars

\* The administrator's side of the service, next to the sessions.
NextAdmin == Sessions \/ Admin
AdminSpec == Init /\ [][NextAdmin]_vars


(***************************************************************************)
(* Vocabulary of the properties.                                           *)
(***************************************************************************)
\* The step handled one RPC call of `op`; last' describes it.
Handled(op) == ncalls' = ncalls + 1 /\ last'.op = op

\* The call made the collaborator call `name`.
Called(call, name) == \E i \in DOMAIN call.calls : call.calls[i] = name

AuthorizedOf(s) == Get(s, "authorized", EmptyDict)
Live(c) == c \in open /\ HasKey(session[c], "extranonce1")

\* In a step that handled a submit: whether the submit got to the validator,
\* and the validator's answer (from the session before the call and the
\* inputs of the call).
SubmitValidated ==
    ReachesValidator(session[last'.conn], last'.args.worker_name, last'.args.known)
ValidatorAnswer ==
    LET a == last'.args
        s0 == session[last'.conn]
    IN SubmitShare(a.job_id, a.worker_name, ShareLimiterSubmit(s0, a.new_diff),
                   s0["extranonce1"], a.nonce, s0["difficulty"])
LastShare == shares[Len(shares)]

(***************************************************************************)
(* C1.  A submit whose worker_name has no entry in the session's           *)
(* 'authorized' map fails with "Worker is not authorized", also when the   *)
(* credential store would accept the worker: it does not return True, the  *)
(* validator is not called and nothing is recorded.                        *)
(***************************************************************************)
C1_Step ==
    (Handled("submit")
       /\ ~HasKey(AuthorizedOf(session[last'.conn]), last'.args.worker_name))
    => /\ last'.ret = "raise"
       /\ last'.error = "Worker is not authorized"
       /\ ~Called(last', "template_registry.submit_share")
       /\ shares' = shares
       /\ deferreds' = deferreds
C2_OriginalStep ==
    (Handled("submit") /\ ~HasKey(session[last'.conn], "extranonce1"))
    => /\ last'.ret = "raise"
       /\ last'.error = "Connection is not subscribed for mining"
       /\ ~Called(last', "template_registry.submit_share")
C2_Step ==
    (Handled("submit") /\ ~HasKey(session[last'.conn], "extranonce1"))
    => /\ last'.ret = "raise"
       /\ ~Called(last', "template_registry.submit_share")
       /\ shares' = shares
       /\ deferreds' = deferreds
       /\ last'.error =
            IF /\ HasKey(AuthorizedOf(session[last'.conn]), last'.args.worker_name)
               /\ last'.args.known
            THEN "Connection is not subscribed for mining"
            ELSE "Worker is not authorized"
C3_UniqueExtranonce1 ==
    /\ \A a, b \in Conns :
         (a # b /\ Live(a) /\ Live(b))
         => /\ session[a]["extranonce1"] # session[b]["extranonce1"]
            /\ hexlify(session[a]["extranonce1"]) # hexlify(session[b]["extranonce1"])
    /\ last.op = "subscribe"
       => /\ Live(last.conn) => last.value[2] = hexlify(session[last.conn]["extranonce1"])
          /\ \A b \in Conns \ {last.conn} :
               Live(b) => last.value[2] # hexlify(session[b]["extranonce1"])

\* Both connections are subscribed, one of them for the second time.
C3_Witness ==
    /\ last.op = "subscribe"
    /\ \A c \in Conns : Live(c)
    /\ Cardinality(allocated) = 3

(***************************************************************************)
(* C4.  When the validator returns the preceding difficulty (not the       *)
(* falsy sentinel), submit returns True and exactly one record goes to the *)
(* Outcome Recorder, accepted and credited at that preceding difficulty.   *)
(***************************************************************************)
C4_Step ==
    (Handled("submit") /\ SubmitValidated /\ ~ValidatorAnswer.raised
       /\ ValidatorAnswer.shareAtOldDiff # PyFalse)
    => /\ last'.ret = "True"
       /\ Len(shares') = Len(shares) + 1
       /\ SubSeq(shares', 1, Len(shares)) = shares
       /\ shares'[Len(shares')].is_valid
       /\ shares'[Len(shares')].difficulty = ValidatorAnswer.shareAtOldDiff
C4_GraceCredit == [][C4_Step]_vars

(***************************************************************************)
(* C5.  When the validator raises, the Outcome Recorder gets one record    *)
(* with accepted False, header False, hash False, the difficulty the       *)
(* session had when the submit began, share difficulty 0 and the failure's *)
(* message, and the same failure goes to the caller.                       *)
(***************************************************************************)
C5_Step ==
    (Handled("submit") /\ SubmitValidated /\ ValidatorAnswer.raised)
    => /\ shares' = Append(shares,
              [worker_name |-> last'.args.worker_name,
               block_header |-> FalseField, block_hash |-> FalseField,
               difficulty |-> session[last'.conn]["difficulty"],
               submit_time |-> TimestamperTime, is_valid |-> FALSE,
               ip |-> IpOf(last'.conn),
               invalid_reason |-> ValidatorAnswer.msg, share_diff |-> 0])
       /\ last'.ret = "raise"
       /\ last'.error = ValidatorAnswer.msg
       /\ deferreds' = deferreds
C5_InvalidShareRecorded == [][C5_Step]_vars

\* A share was just refused in a call during which the limiter changed the
\* session's difficulty: the record holds the difficulty of before.
C5_Witness ==
    /\ last.op = "submit"
    /\ last.ret = "raise"
    /\ Called(last, "template_registry.submit_share")
    /\ Len(shares) > 0
    /\ ~LastShare.is_valid
    /\ LastShare.invalid_reason = last.error
    /\ Live(last.conn)
    /\ LastShare.difficulty # session[last.conn]["difficulty"]

(***************************************************************************)
(* C6.  As claimed: every submit that ends with an error (authorization,   *)
(* submit before subscribe, validator rejection) also gives the Outcome    *)
(* Recorder a record of a rejected share.                                  *)
(***************************************************************************)
C6_OriginalStep ==
    (Handled("submit") /\ last'.ret = "raise")
    => /\ Len(shares') = Len(shares) + 1
       /\ ~shares'[Len(shares')].is_valid
C6_Original == [][C6_OriginalStep]_vars

(***************************************************************************)
(* C6, amended.  A submit that ends with the validator's error gives the   *)
(* Outcome Recorder one record of a rejected share with that error; a      *)
(* submit that ends with "Worker is not authorized" or "Connection is not  *)
(* subscribed for mining" records nothing.                                 *)
(***************************************************************************)
C6_Step ==
    (Handled("submit") /\ last'.ret = "raise")
    => IF last'.error \in {"Worker is not authorized",
                           "Connection is not subscribed for mining"}
       THEN shares' = shares
       ELSE /\ Len(shares') = Len(shares) + 1
            /\ SubSeq(shares', 1, Len(shares)) = shares
            /\ ~shares'[Len(shares')].is_valid
            /\ shares'[Len(shares')].invalid_reason = last'.error
            /\ shares'[Len(shares')].worker_name = last'.args.worker_name
C6_RejectedShareRecorded == [][C6_Step]_vars

\* The validator refused a share for its difficulty: recorded and raised.
C6_Witness ==
    /\ last.op = "submit"
    /\ last.ret = "raise"
    /\ last.error = "Share is above target"
    /\ Len(shares) > 0
    /\ ~LastShare.is_valid
    /\ LastShare.invalid_reason = "Share is above target"
    /\ LastShare.worker_name = last.args.worker_name


(***************************************************************************)
(* C7.  An add_litecoind call that the admin gate lets through reaches     *)
(* bitcoin_rpc.add_connection exactly when it has 4 arguments, and then    *)
(* with these 4 arguments in their order; with any other number it fails   *)
(* with "Incorrect number of parameters sent" and adds no connection.  No  *)
(* add_litecoind call with another number of arguments adds a connection.  *)
(***************************************************************************)
C7_Step ==
    Handled("add_litecoind")
    => LET a == last'.args.args
       IN /\ daemons' # daemons => Len(a) = 4
          /\ last'.args.is_admin
             => IF Len(a) = 4
                THEN /\ daemons' = Append(daemons, <<a[1], a[2], a[3], a[4]>>)
                     /\ last'.ret = "True"
                     /\ last'.calls = <<"bitcoin_rpc.add_connection">>
                ELSE /\ daemons' = daemons
                     /\ last'.ret = "raise"
                     /\ last'.error = "Incorrect number of parameters sent"
                     /\ last'.calls = <<>>
C7_AddLitecoindArity == [][C7_Step]_vars

\* After a connection was added, a call with 5 arguments was refused.
C7_Witness ==
    /\ last.op = "add_litecoind"
    /\ last.args.is_admin
    /\ Len(last.args.args) = 5
    /\ last.error = "Incorrect number of parameters sent"
    /\ Len(daemons) = 1

(***************************************************************************)
(* C8.  A submit whose share solves a block (the validator returns a       *)
(* pending handle) records the accepted share and returns True while the   *)
(* handle is pending and nothing was reported about the block; the reply   *)
(* stays what it is when the handle fires later.                           *)
(***************************************************************************)
C8_Step ==
    /\ (Handled("submit") /\ SubmitValidated /\ ~ValidatorAnswer.raised
          /\ ValidatorAnswer.on_submit)
       => /\ last'.ret = "True"
          /\ Len(shares') = Len(shares) + 1
          /\ shares'[Len(shares')].is_valid
          /\ shares'[Len(shares')].block_header = ValidatorAnswer.block_header
          /\ Len(deferreds') = Len(deferreds) + 1
          /\ ~deferreds'[Len(deferreds')].called
          /\ blocks' = blocks
    /\ blocks' # blocks => last' = last
C8_ReplyBeforeConfirmation == [][C8_Step]_vars

\* The reply True of a block-solving submit, its handle still pending.
C8_Witness ==
    /\ last.op = "submit"
    /\ last.ret = "True"
    /\ Called(last, "on_submit.addCallback")
    /\ Len(deferreds) > 0
    /\ ~deferreds[Len(deferreds)].called
    /\ LastShare.is_valid
    /\ LastShare.submit_time + 1 = TimestamperTime
    /\ blocks = <<>>

(***************************************************************************)
(* C9.  Every submit that added a callback to a handle is reported to      *)
(* share_manager.on_submit_block exactly once when the handle fires, with  *)
(* the worker, header, hash, submit time, IP and share difficulty of that  *)
(* submit, and not before; the report is made also when the connection of  *)
(* the submit is closed.                                                   *)
(***************************************************************************)
\* The accepted shares that solved a block, in the order of their submits.
BlockShares == SelectSeq(shares, LAMBDA r : r.is_valid /\ MeetsJobTarget(r.block_header[4]))
Fired == {d \in DOMAIN deferreds : deferreds[d].called}
ReportsOf(r) ==
    {i \in DOMAIN blocks :
        /\ blocks[i].worker_name = r.worker_name
        /\ blocks[i].block_header = r.block_header
        /\ blocks[i].block_hash = r.block_hash
        /\ blocks[i].submit_time = r.submit_time
        /\ blocks[i].ip = r.ip
        /\ blocks[i].share_diff = r.share_diff}
C10_Step ==
    Handled("authorize")
    => LET a == last'.args
           after == session'[last'.conn]
       IN /\ HasKey(after, "authorized")
          /\ IF a.known
             THEN /\ last'.ret = "True"
                  /\ HasKey(after["authorized"], a.worker_name)
                  /\ after["authorized"][a.worker_name] = a.worker_password
             ELSE /\ last'.ret = "False"
                  /\ ~HasKey(after["authorized"], a.worker_name)
C10_AuthorizeStoresOrRemoves == [][C10_Step]_vars

\* A worker that had a share accepted on this connection was just refused
\* by authorize, and has no entry left.
C10_Witness ==
    /\ last.op = "authorize"
    /\ last.ret = "False"
    /\ last.conn \in open
    /\ ~HasKey(AuthorizedOf(session[last.conn]), last.args.worker_name)
    /\ \E i \in DOMAIN shares :
         /\ shares[i].is_valid
         /\ shares[i].worker_name = last.args.worker_name
         /\ shares[i].ip = IpOf(last.conn)

(***************************************************************************)
(* C11.  An update_block or add_litecoind call of a caller without the     *)
(* administrator's capability is refused with a permission error: the      *)
(* template is not refreshed, no daemon connection is added and no         *)
(* collaborator is called, whatever the number of arguments and whatever   *)
(* the sessions hold.                                                      *)
(***************************************************************************)
C11_Step ==
    ((Handled("update_block") \/ Handled("add_litecoind")) /\ ~last'.args.is_admin)
    => /\ last'.ret = "raise"
       /\ last'.error = "Unauthorized admin"
       /\ last'.calls = <<>>
       /\ templates' = templates
       /\ daemons' = daemons
       /\ session' = session
C11_AdminOnly == [][C11_Step]_vars

\* A caller without the capability was just refused an add_litecoind with
\* 4 arguments, on a service with a subscribed connection and an authorized
\* worker; nothing was added.
C11_Witness ==
    /\ last.op = "add_litecoind"
    /\ ~last.args.is_admin
    /\ Len(last.args.args) = 4
    /\ last.ret = "raise"
    /\ daemons = <<>>
    /\ \E c \in Conns : Live(c) /\ AuthorizedOf(session[c]) # EmptyDict

(***************************************************************************)
(* C12.  As claimed: what the limiter does during a submit does not change *)
(* the outcome of that submit.  The share is accepted or rejected, and     *)
(* recorded with the same difficulty, as in the submit that differs only   *)
(* in that the limiter leaves the session alone.                           *)
(***************************************************************************)
\* In a step that handled a submit which got to the validator: the record
\* the submit makes when the limiter does `new_diff`, all else as in the
\* call handled.
RecordWith(new_diff) ==
    LET a == last'.args
        s0 == session[last'.conn]
        s1 == ShareLimiterSubmit(s0, new_diff)
        difficulty == SnapshotDifficulty(s0, s1)
        v == SubmitShare(a.job_id, a.worker_name, s1, s0["extranonce1"], a.nonce,
                         difficulty)
    IN IF v.raised
       THEN InvalidShareRecord(a.worker_name, difficulty, TimestamperTime,
                               IpOf(last'.conn), v.msg)
       ELSE ValidShareRecord(a.reading, a.worker_name, v, difficulty,
                             TimestamperTime, IpOf(last'.conn))
C12_OriginalStep ==
    (Handled("submit") /\ SubmitValidated)
    => LET r == shares'[Len(shares')]
           r0 == RecordWith(0)
       IN /\ Len(shares') = Len(shares) + 1
          /\ r.is_valid = r0.is_valid
          /\ r.difficulty = r0.difficulty
C12_Step ==
    (Handled("submit") /\ SubmitValidated)
    => LET s0 == session[last'.conn]
           nd == last'.args.new_diff
           r == shares'[Len(shares')]
           r0 == RecordWith(0)
       IN /\ Len(shares') = Len(shares) + 1
          /\ session'[last'.conn]["difficulty"] = IF nd = 0 THEN s0["difficulty"] ELSE nd
          /\ ~r.is_valid => r.difficulty = s0["difficulty"]
          /\ \/ r.is_valid = r0.is_valid /\ r.difficulty = r0.difficulty
             \/ /\ r0.is_valid /\ r0.share_diff < s0["difficulty"]
                /\ ~r.is_valid
                /\ nd \notin {0, s0["difficulty"]}
C13_Step ==
    Handled("subscribe")
    => LET c == last'.conn
       IN /\ Called(last', "template_registry.get_new_extranonce1")
          /\ allocated' \ allocated = {session'[c]["extranonce1"]}
          /\ HasKey(session[c], "extranonce1")
             => session'[c]["extranonce1"] # session[c]["extranonce1"]
          /\ last'.value[2] = hexlify(session'[c]["extranonce1"])
          /\ session'[c]["difficulty"] = 1
C13_SubscribeNotIdempotent == [][C13_Step]_vars

\* A second subscribe on a connection whose difficulty the limiter had
\* raised from 1: the session holds the second value issued and is back at
\* difficulty 1.
C13_Witness ==
    /\ last.op = "subscribe"
    /\ Live(last.conn)
    /\ \A c \in Conns \ {last.conn} : ~HasKey(session[c], "extranonce1")
    /\ session[last.conn]["extranonce1"] = <<2>>
    /\ Get(session[last.conn], "prev_diff", 0) = 1
    /\ session[last.conn]["difficulty"] = 1

(***************************************************************************)
(* C14.  While no connection has closed, the extranonce1 values issued and *)
(* not given back are the values the sessions hold: a subscribe on a       *)
(* subscribed connection gives back the value the session held.            *)
(***************************************************************************)
Held == {session[c]["extranonce1"] : c \in {x \in Conns : Live(x)}}
C14_ReleasedOnResubscribe == (open = Conns) => (allocated = Held)

(***************************************************************************)
(* C15.  The steps of a submit run in one order and stop at the first      *)
(* failure: the limiter and the validator are called only when the worker  *)
(* passed the check of line 81 and the connection is subscribed, the       *)
(* limiter before the validator, and the share is recorded before submit   *)
(* replies (True, or the validator's error).  A submit that is neither     *)
(* authorized nor subscribed fails with "Worker is not authorized".        *)
(***************************************************************************)
\* The place of the collaborator call `name` in the calls of `call`, 0 when
\* the call was not made.
PlaceOf(call, name) ==
    IF Called(call, name)
    THEN CHOOSE i \in DOMAIN call.calls : call.calls[i] = name
    ELSE 0
C15_Step ==
    Handled("submit")
    => LET s0 == session[last'.conn]
           w == last'.args.worker_name
           passes == HasKey(AuthorizedOf(s0), w) /\ last'.args.known
           subscribed == HasKey(s0, "extranonce1")
           auth == PlaceOf(last', "worker_manager.authorize")
           lim == PlaceOf(last', "share_limiter.submit")
           val == PlaceOf(last', "template_registry.submit_share")
           rec == PlaceOf(last', "share_manager.on_submit_share")
       IN /\ auth = 1
          /\ (lim # 0 \/ val # 0) <=> (passes /\ subscribed)
          /\ (passes /\ subscribed)
             => /\ auth < lim /\ lim < val /\ val < rec
                /\ Len(shares') = Len(shares) + 1
                /\ last'.ret = "True" <=> shares'[Len(shares')].is_valid
          /\ ~(passes /\ subscribed)
             => /\ last'.calls = <<"worker_manager.authorize">>
                /\ last'.ret = "raise"
                /\ shares' = shares /\ deferreds' = deferreds
                /\ session'[last'.conn]["authorized"] = AuthorizedOf(s0)
          /\ (~passes /\ ~subscribed) => last'.error = "Worker is not authorized"
          /\ (passes /\ ~subscribed)
             => last'.error = "Connection is not subscribed for mining"
C16_Step ==
    (Handled("submit")
       /\ HasKey(AuthorizedOf(session[last'.conn]), last'.args.worker_name)
       /\ ~last'.args.known)
    => /\ last'.ret = "raise"
       /\ last'.error = "Worker is not authorized"
       /\ last'.calls = <<"worker_manager.authorize">>
       /\ shares' = shares
       /\ deferreds' = deferreds
       /\ session' = session
C16_CredentialReverified == [][C16_Step]_vars

\* A worker that had a share accepted on this subscribed connection, and
\* still has its entry, was just refused by submit.
C16_Witness ==
    /\ last.op = "submit"
    /\ ~last.args.known
    /\ last.error = "Worker is not authorized"
    /\ Live(last.conn)
    /\ HasKey(AuthorizedOf(session[last.conn]), last.args.worker_name)
    /\ \E i \in DOMAIN shares :
         /\ shares[i].is_valid
         /\ shares[i].worker_name = last.args.worker_name
         /\ shares[i].ip = IpOf(last.conn)

(***************************************************************************)
(* C17.  When the validator accepts a share and returns the falsy sentinel *)
(* for the old difficulty, submit returns True and records one accepted    *)
(* share with the difficulty the session had when the submit began (not    *)
(* the one the limiter set during the call) and with the header, hash,     *)
(* share difficulty, submit time and IP of this submission.                *)
(***************************************************************************)
C17_Step ==
    (Handled("submit") /\ SubmitValidated /\ ~ValidatorAnswer.raised
       /\ ValidatorAnswer.shareAtOldDiff = PyFalse)
    => /\ last'.ret = "True"
       /\ shares' = Append(shares,
              [worker_name |-> last'.args.worker_name,
               block_header |-> ValidatorAnswer.block_header,
               block_hash |-> ValidatorAnswer.block_hash,
               difficulty |-> session[last'.conn]["difficulty"],
               submit_time |-> TimestamperTime, is_valid |-> TRUE,
               ip |-> IpOf(last'.conn), invalid_reason |-> "",
               share_diff |-> ValidatorAnswer.share_diff])
C17_SentinelCredit == [][C17_Step]_vars

(***************************************************************************)
(* C18.  A submit that gets to the validator makes exactly one call of     *)
(* share_manager.on_submit_share: a record of an accepted share exactly    *)
(* when submit returns True, of a rejected share exactly when the          *)
(* validator raised.  No other step adds a record or changes one.          *)
(***************************************************************************)
CallsOf(call, name) == Cardinality({i \in DOMAIN call.calls : call.calls[i] = name})
C18_Step ==
    /\ (Handled("submit") /\ SubmitValidated)
       => /\ Len(shares') = Len(shares) + 1
          /\ SubSeq(shares', 1, Len(shares)) = shares
          /\ CallsOf(last', "share_manager.on_submit_share") = 1
          /\ shares'[Len(shares')].is_valid <=> last'.ret = "True"
          /\ ~shares'[Len(shares')].is_valid <=> ValidatorAnswer.raised
          /\ last'.ret = "raise" <=> ValidatorAnswer.raised
    /\ ~(Handled("submit") /\ SubmitValidated) => shares' = shares
C18_OneRecordPerShare == [][C18_Step]_vars

\* Two submits got to the validator: the first share was refused, the
\* second accepted, and there are two records.
C18_Witness ==
    /\ last.op = "submit"
    /\ last.ret = "True"
    /\ Len(shares) = 2
    /\ ~shares[1].is_valid
    /\ shares[2].is_valid
    /\ shares[1].ip = shares[2].ip

(***************************************************************************)
(* C19.  Sessions are isolated.  A call on one connection leaves the       *)
(* session of every other connection as it was (extranonce1, difficulty,   *)
(* 'authorized' map), in every interleaving of authorize, subscribe and    *)
(* submit on the connections; a session changes only in a call on its own  *)
(* connection or when that connection closes.  Within a session,           *)
(* authorize(worker_name, ...) leaves the entries of the other worker      *)
(* names, the extranonce1 and the difficulty as they were.                 *)
(***************************************************************************)
C19_Step ==
    /\ \A b \in Conns :
         session'[b] # session[b]
         => \/ ncalls' = ncalls + 1 /\ last'.conn = b
            \/ b \in open /\ b \notin open'
    /\ Handled("authorize")
       => LET before == session[last'.conn]
              after == session'[last'.conn]
          IN /\ \A k \in {"extranonce1", "difficulty", "prev_diff"} :
                  /\ HasKey(after, k) <=> HasKey(before, k)
                  /\ HasKey(before, k) => after[k] = before[k]
             /\ \A w \in Workers \ {last'.args.worker_name} :
                  /\ HasKey(after["authorized"], w) <=> HasKey(AuthorizedOf(before), w)
                  /\ HasKey(after["authorized"], w)
                     => after["authorized"][w] = AuthorizedOf(before)[w]
C19_SessionsIsolated == [][C19_Step]_vars

\* A subscribe on one connection, next to a subscribed connection with an
\* authorized worker whose difficulty the limiter had raised: that session
\* is as it was.
C19_Witness ==
    /\ last.op = "subscribe"
    /\ \E b \in Conns \ {last.conn} :
         /\ Live(b)
         /\ session[b]["difficulty"] = 2
         /\ AuthorizedOf(session[b]) # EmptyDict
         /\ session[b]["extranonce1"] # session[last.conn]["extranonce1"]
    /\ Live(last.conn)
    /\ session[last.conn]["difficulty"] = 1
    /\ AuthorizedOf(session[last.conn]) = EmptyDict

(***************************************************************************)
(* C20.  A report to share_manager.on_submit_block is made only when a     *)
(* handle fires, never in the submit itself, and it is the report of a     *)
(* share that is already recorded as accepted and whose validator answer   *)
(* carried a handle: it has the worker, header, hash, submit time, IP and  *)
(* share difficulty of that record.  Nothing is reported for a rejected    *)
(* share or for an accepted share without a handle.                        *)
(***************************************************************************)
\* The recorded share a block report belongs to.
SharesOf(b) ==
    {j \in DOMAIN shares :
        /\ shares[j].worker_name = b.worker_name
        /\ shares[j].block_header = b.block_header
        /\ shares[j].block_hash = b.block_hash
        /\ shares[j].submit_time = b.submit_time
        /\ shares[j].ip = b.ip
        /\ shares[j].share_diff = b.share_diff}
C20_Step ==
    /\ Handled("submit") => blocks' = blocks
    /\ blocks' # blocks
       => /\ blocks' = Append(blocks, blocks'[Len(blocks')])
          /\ shares' = shares
          /\ \E d \in DOMAIN deferreds : ~deferreds[d].called /\ deferreds'[d].called
          /\ Cardinality(SharesOf(blocks'[Len(blocks')])) = 1
          /\ \A j \in SharesOf(blocks'[Len(blocks')]) :
               /\ shares[j].is_valid
               /\ MeetsJobTarget(shares[j].block_header[4])
C20_ReportOnlyForBlockShares == [][C20_Step]_vars

\* One block was reported, after two shares were accepted of which only
\* one solved a block.
C20_Witness ==
    /\ Len(blocks) = 1
    /\ Len(shares) = 2
    /\ shares[1].is_valid /\ shares[2].is_valid
    /\ Len(BlockShares) = 1
    /\ Len(deferreds) = 1

====
